---- MODULE Spec2Model ----
(***************************************************************************)
(* Model of CalorieFlow: the storage layer (Storage), the date utilities   *)
(* (Utils), the analytics of the App and the service worker.               *)
(*                                                                         *)
(* Time.  A JavaScript Date is an instant counted in clock ticks since the *)
(* epoch.  The model keeps the instant as an integer and scales the clock: *)
(* one model tick stands for the smallest step of the JS clock, a day has  *)
(* TicksPerDay ticks, and "23:59:59.999" is the last tick of a local day.  *)
(* A 'YYYY-MM-DD' string names a calendar day; the model writes it as the  *)
(* day number D, and new Date('YYYY-MM-DD') is UTC midnight of day D.      *)
(* The device's time zone is tz ticks east of UTC in standard time and     *)
(* DstShift ticks more while daylight saving time is in force; dstEnd      *)
(* holds the instants at which daylight saving time ends (none in a zone   *)
(* without it).                                                            *)
(*                                                                         *)
(* The session.  session is sessionStorage, a function from the keys     *)
(* written to their text; the PIN hash lives in localStorage (store).     *)
(* form is the recipe form of the page: the values of its inputs, whether  *)
(* its modal is shown, and the submit handlers that wait for an image.     *)
(*                                                                         *)
(* Failures.  fault is the set of localStorage and JSON calls that throw   *)
(* when they are made: "getItem", "parse" (the text under the key is not   *)
(* JSON) and "setItem" (quota exceeded, storage disabled).                 *)
(*                                                                         *)
(* Objects.  A JS object is a function from its own keys to values.  The   *)
(* value undefined is the string Undefined, null is the string Null.       *)
(***************************************************************************)
EXTENDS Integers, Sequences, FiniteSets, TLC

VARIABLES store, now, tz, last, fault, dstEnd, sw, session, form

vars == <<store, now, tz, last, fault, dstEnd, sw, session, form>>

(* what the Storage methods and the clock never change *)
outside == <<fault, dstEnd, sw, session, form>>

-----------------------------------------------------------------------------
(* Bounds of the model *)

MaxDay == 2
MaxNow == 1
MaxEntries == 2
MaxRangeDay == 4
MaxTZ == 5
MaxRecords == 1
MaxSpan == 6
MaxLogged == 1
MaxElapsed == 1
MaxPinLen == 5
MaxPending == 1
MaxWrites == 1

(* 1000 * 60 * 60 * 24 clock ticks, scaled *)
TicksPerDay == 24

(* the hour by which daylight saving time moves the clock, scaled *)
DstShift == 1

Days == 1..MaxDay
TZOffsets == {-MaxTZ, 0, MaxTZ}
Weights == {695, 700}

Undefined == "<undefined>"
Null == "<null>"
NullResult == [isNull |-> TRUE]
UndefinedResult == [isUndefined |-> TRUE]

(* the service worker before any of its events *)
NoWorker == [phase |-> "none"]

(* no file chosen in the recipe form's file input *)
NoFile == ""

(* the recipe form after reset with the modal closed, and no submit
   handler waiting for an image *)
ResetForm ==
    [open |-> FALSE, id |-> "", name |-> "", calories |-> "", ingredients |-> "",
     instructions |-> "", file |-> NoFile, pending |-> <<>>]

-----------------------------------------------------------------------------
(* Storage.KEYS *)

FOOD_ENTRIES == "calorieflow_food_entries"
WEIGHT_ENTRIES == "calorieflow_weight_entries"
(* the recipes filed under the key of the food entries *)
RECIPES_FoodKey == "calorieflow_food_entries"

RECIPES == "calorieflow_recipes"
SETTINGS == "calorieflow_settings"
KEYS == {FOOD_ENTRIES, WEIGHT_ENTRIES, RECIPES, SETTINGS}

-----------------------------------------------------------------------------
(* JavaScript helpers *)

NumericKeys == {"calories", "weight", "createdAt", "date", "calorieGoal"}

(* the spread written the wrong way round: { ...b, ...a } *)
Merge_KeepExisting(a, b) ==
    [k \in (DOMAIN a) \cup (DOMAIN b) |-> IF k \in DOMAIN a THEN a[k] ELSE b[k]]

(* { ...a, ...b } *)
Merge(a, b) ==
    [k \in (DOMAIN a) \cup (DOMAIN b) |-> IF k \in DOMAIN b THEN b[k] ELSE a[k]]

(* obj[k]: reading a key the object does not have gives undefined *)
Prop(obj, k) == IF k \in DOMAIN obj THEN obj[k] ELSE Undefined

(* JSON.parse(JSON.stringify(obj)) of one object: keys whose value is
   undefined are not written *)
JSONObject(obj) ==
    [k \in {j \in DOMAIN obj : j \in NumericKeys \/ obj[j] # Undefined} |-> obj[k]]

(* JSON.parse(JSON.stringify(list)) of an array of objects *)
JSONArray(list) == [i \in 1..Len(list) |-> JSONObject(list[i])]

(* new Date('YYYY-MM-DD'): UTC midnight of the day *)
ParseDate(d) == d * TicksPerDay

(* the offset of local time from UTC at an instant *)
OffsetAt(t) == IF \E e \in dstEnd : t < e THEN tz + DstShift ELSE tz

(* the instant at which the local clock shows the wall-clock time w; a time
   the clock shows twice is taken the first time *)
FromLocal(w) ==
    IF \E e \in dstEnd : w - (tz + DstShift) < e THEN w - (tz + DstShift) ELSE w - tz

(* date.toDateString(): the local calendar day of an instant *)
ToDateString(t) == (t + OffsetAt(t)) \div TicksPerDay

(* Date.now().toString() *)
NewId == ToString(now)

(* the filter with its test inverted: e => e.id === id *)
FilterOutId_Inverted(list, id) == SelectSeq(list, LAMBDA e : e.id = id)

(* array.filter(e => e.id !== id) *)
FilterOutId(list, id) == SelectSeq(list, LAMBDA e : e.id # id)

(* array.findIndex(e => e.id === id), 1-based, 0 when there is none *)
FindIndexById(list, id) ==
    IF \E i \in 1..Len(list) : list[i].id = id
    THEN CHOOSE i \in 1..Len(list) :
            /\ list[i].id = id
            /\ \A j \in 1..(i - 1) : list[j].id # id
    ELSE 0

-----------------------------------------------------------------------------
(* Generic storage methods; localStorage is the function store, a key that
   was never written is outside its domain *)

Faults == {"getItem", "parse", "setItem"}

(* how a call ends: it throws, or it returns null, or it returns a value *)
Thrown == [threw |-> TRUE, isNull |-> FALSE, value |-> <<>>]
ReturnedNull == [threw |-> FALSE, isNull |-> TRUE, value |-> <<>>]
Returned(v) == [threw |-> FALSE, isNull |-> FALSE, value |-> v]

(* the try block without its catch: the exception leaves the method *)
Catch_Rethrow(result, fallback) == result

(* try { result } catch (e) { return fallback } *)
Catch(result, fallback) == IF result.threw THEN fallback ELSE result

(* const data = localStorage.getItem(key); return data ? JSON.parse(data) : null *)
ReadItem(key) ==
    IF "getItem" \in fault THEN Thrown
    ELSE IF key \notin DOMAIN store THEN ReturnedNull
    ELSE IF "parse" \in fault THEN Thrown
    ELSE Returned(store[key])

(* Storage.get(key) *)
StorageGet(key) == Catch(ReadItem(key), ReturnedNull)

(* localStorage.setItem(key, JSON.stringify(value)); return true *)
WriteItem(key) == IF "setItem" \in fault THEN Thrown ELSE Returned(TRUE)

(* Storage.set(key, value), the value it returns *)
StorageSet(key) == Catch(WriteItem(key), Returned(FALSE))

(* the operand taken as it is, with no fallback *)
OrDefault_None(result, default) == result

(* result || default *)
OrDefault(result, default) ==
    IF ~result.threw /\ result.isNull THEN Returned(default) ELSE result

(* this.get(key) || default *)
Load(key, default) == OrDefault(StorageGet(key), default)

(* the value the caller of this.get(key) || default goes on with *)
get(key, default) == Load(key, default).value

(* Storage.set(key, value), what it does to localStorage: a write that
   failed leaves the item as it was *)
set(key, value) ==
    store' = IF ~StorageSet(key).threw /\ StorageSet(key).value
             THEN [k \in (DOMAIN store) \cup {key} |-> IF k = key THEN value ELSE store[k]]
             ELSE store

(* an exception leaves a method that reads a collection and calls an array
   method on it: Storage.get threw, or the collection is null *)
ReadThrows(key) == Load(key, <<>>).threw \/ Load(key, <<>>).isNull

(* an exception leaves a method that also writes the collection back *)
WriteThrows(key) == ReadThrows(key) \/ StorageSet(key).threw

-----------------------------------------------------------------------------
(* Weight entries *)

getWeightEntries == get(WEIGHT_ENTRIES, <<>>)

(* the lookup that never finds the date *)
FindIndexByDate_Never(list, date) == 0

(* findIndex(e => new Date(e.date).toDateString() ===
                  new Date(entry.date).toDateString()) *)
FindIndexByDate(list, date) ==
    IF \E i \in 1..Len(list) :
          ToDateString(ParseDate(list[i].date)) = ToDateString(ParseDate(date))
    THEN CHOOSE i \in 1..Len(list) :
            /\ ToDateString(ParseDate(list[i].date)) = ToDateString(ParseDate(date))
            /\ \A j \in 1..(i - 1) :
                  ToDateString(ParseDate(list[j].date)) # ToDateString(ParseDate(date))
    ELSE 0

(* the comparator with its operands exchanged *)
CompareByDate_Descending(a, b) == ParseDate(b.date) - ParseDate(a.date)

(* the comparator (a, b) => new Date(a.date) - new Date(b.date) *)
CompareByDate(a, b) == ParseDate(a.date) - ParseDate(b.date)

(* one step of the stable sort: e goes behind every element not after it *)
InsertByDate(e, sorted) ==
    LET n == Cardinality({i \in 1..Len(sorted) : CompareByDate(sorted[i], e) <= 0})
    IN  SubSeq(sorted, 1, n) \o <<e>> \o SubSeq(sorted, n + 1, Len(sorted))

RECURSIVE SortByDate(_)
(* entries.sort(comparator): Array.prototype.sort is stable *)
SortByDate(list) ==
    IF list = <<>> THEN <<>>
    ELSE InsertByDate(list[Len(list)], SortByDate(SubSeq(list, 1, Len(list) - 1)))

(* the array saveWeightEntry writes *)
UpsertWeight(entries, entry) ==
    LET existingIndex == FindIndexByDate(entries, entry.date)
    IN  SortByDate(IF existingIndex # 0
                   THEN [entries EXCEPT ![existingIndex] = Merge(entries[existingIndex], entry)]
                   ELSE Append(entries, entry))

saveWeightEntry(date, weight) ==
    LET entries == getWeightEntries
        entry == [date |-> date, weight |-> weight, id |-> NewId, createdAt |-> now]
    IN  /\ set(WEIGHT_ENTRIES, JSONArray(UpsertWeight(entries, entry)))
        /\ last' = [op |-> "saveWeightEntry", date |-> date, weight |-> weight,
                    existingIndex |-> FindIndexByDate(entries, date), ret |-> entry,
                    threw |-> WriteThrows(WEIGHT_ENTRIES)]
        /\ UNCHANGED <<now, tz, outside>>

deleteWeightEntry(id) ==
    /\ set(WEIGHT_ENTRIES, JSONArray(FilterOutId(getWeightEntries, id)))
    /\ last' = [op |-> "deleteWeightEntry", id |-> id, ret |-> TRUE,
                removed |-> Len(getWeightEntries) - Len(FilterOutId(getWeightEntries, id)),
                threw |-> WriteThrows(WEIGHT_ENTRIES)]
    /\ UNCHANGED <<now, tz, outside>>

(* the first element instead of the last *)
LatestWeight_First(entries) ==
    IF Len(entries) = 0 THEN NullResult ELSE entries[1]

(* the value getLatestWeight returns *)
LatestWeight(entries) ==
    IF Len(entries) = 0 THEN NullResult ELSE entries[Len(entries)]

getLatestWeight ==
    /\ last' = [op |-> "getLatestWeight", ret |-> LatestWeight(getWeightEntries),
                threw |-> ReadThrows(WEIGHT_ENTRIES)]
    /\ UNCHANGED <<store, now, tz, outside>>

-----------------------------------------------------------------------------
(* Date arguments: a 'YYYY-MM-DD' string [str |-> day] or a Date object
   [date |-> instant] *)

DateString(d) == [str |-> d]
DateObject(t) == [date |-> t]

(* new Date(x) *)
NewDate(x) == IF "str" \in DOMAIN x THEN ParseDate(x.str) ELSE x.date

(* new Date(y, m, d): local midnight of a local calendar day *)
LocalMidnight(day) == FromLocal(day * TicksPerDay)

(* d.setHours(0, 0, 0, 0) *)
StartOfDay(t) == LocalMidnight(ToDateString(t))

(* d.setHours(23, 59, 59, 999): the last tick of the local day *)
EndOfDay(t) == LocalMidnight(ToDateString(t)) + (TicksPerDay - 1)

-----------------------------------------------------------------------------
(* Utils: the calendar.  Day 0 is 1970-01-01, a Thursday. *)

EpochWeekday == 4

(* the day numbers of 1969-12-01, 1970-01-01, ..., 1970-07-01 *)
MonthStarts == {-31, 0, 31, 59, 90, 120, 151, 181}

(* the first day of the month a day lies in, and of the month after it *)
MonthStartDay(day) ==
    CHOOSE m \in MonthStarts : m <= day /\ \A n \in MonthStarts : n <= day => n <= m

NextMonthStartDay(day) ==
    CHOOSE m \in MonthStarts : m > day /\ \A n \in MonthStarts : n > day => m <= n

(* d.getDay(): 0 is Sunday, 1 is Monday *)
getDay(t) == (ToDateString(t) + EpochWeekday) % 7

(* d.getDate(): the day of the month *)
getDate(t) == ToDateString(t) - MonthStartDay(ToDateString(t)) + 1

(* the local wall-clock time of day of an instant *)
TimeOfDay(t) == (t + OffsetAt(t)) % TicksPerDay

(* d.setDate(n): day n of d's month at d's time of day; n below 1 or past
   the end of the month runs into the neighbouring month *)
setDate(t, n) ==
    FromLocal((MonthStartDay(ToDateString(t)) + n - 1) * TicksPerDay + TimeOfDay(t))

(* the week start computed without the case of Sunday *)
getWeekStart_SundayAhead(date) ==
    setDate(date, getDate(date) - getDay(date) + 1)

(* Utils.getWeekStart *)
getWeekStart(date) ==
    LET day == getDay(date)
        diff == getDate(date) - day + (IF day = 0 THEN -6 ELSE 1)
    IN  setDate(date, diff)

(* Utils.addDays *)
addDays(date, days) == setDate(date, getDate(date) + days)

(* Utils.getWeekEnd *)
getWeekEnd(date) == addDays(getWeekStart(date), 6)

(* Utils.getMonthStart: new Date(year, month, 1) *)
getMonthStart(date) == LocalMidnight(MonthStartDay(ToDateString(date)))

(* Utils.getMonthEnd: new Date(year, month + 1, 0) *)
getMonthEnd(date) == LocalMidnight(NextMonthStartDay(ToDateString(date)) - 1)

Abs(x) == IF x < 0 THEN -x ELSE x

(* Math.ceil(x / d) for d > 0 *)
Ceil(x, d) == -((-x) \div d)

(* Math.round(x / d) for x >= 0 and d > 0 *)
Round(x, d) == (2 * x + d) \div (2 * d)

(* the count taken without Math.abs *)
getDaysBetween_Signed(start, end) == Ceil(end - start, TicksPerDay) + 1

(* Utils.getDaysBetween *)
getDaysBetween(start, end) == Ceil(Abs(end - start), TicksPerDay) + 1

(* the functions applied to Date values *)
weekStartOf(date) ==
    /\ last' = [op |-> "getWeekStart", date |-> date, ret |-> getWeekStart(date)]
    /\ UNCHANGED <<store, now, tz, outside>>

daysBetween(start, end) ==
    /\ last' = [op |-> "getDaysBetween", start |-> start, end |-> end,
                ret |-> getDaysBetween(start, end)]
    /\ UNCHANGED <<store, now, tz, outside>>

-----------------------------------------------------------------------------
(* Food entries *)

FoodInputs ==
    {[name |-> "Egg", quantity |-> "2", calories |-> 70, date |-> 1],
     [name |-> "Toast", quantity |-> Undefined, calories |-> 120, date |-> 1],
     [name |-> "Toast", quantity |-> Undefined, calories |-> 120, date |-> MaxDay]}

FoodUpdates ==
    {[calories |-> 200, quantity |-> Undefined]}

getFoodEntries == get(FOOD_ENTRIES, <<>>)

(* entry.id = Date.now().toString(); entry.createdAt = new Date().toISOString() *)
Enrich(input) == Merge(input, [id |-> NewId, createdAt |-> now])

saveFoodEntry(input) ==
    LET entries == getFoodEntries
        entry == Enrich(input)
    IN  /\ set(FOOD_ENTRIES, JSONArray(Append(entries, entry)))
        /\ last' = [op |-> "saveFoodEntry", input |-> input, ret |-> entry,
                    threw |-> WriteThrows(FOOD_ENTRIES)]
        /\ UNCHANGED <<now, tz, outside>>

(* the record replaced by the updates instead of merged with them *)
UpdateAt_Replace(list, index, updates) ==
    [list EXCEPT ![index] = updates]

(* the array after entries[index] = { ...entries[index], ...updates } *)
UpdateAt(list, index, updates) ==
    [list EXCEPT ![index] = Merge(list[index], updates)]

updateFoodEntry(id, updates) ==
    LET entries == getFoodEntries
        index == FindIndexById(entries, id)
    IN  /\ IF index # 0
           THEN set(FOOD_ENTRIES, JSONArray(UpdateAt(entries, index, updates)))
           ELSE UNCHANGED store
        /\ last' = [op |-> "updateFoodEntry", id |-> id, updates |-> updates,
                    index |-> index,
                    ret |-> IF index # 0 THEN UpdateAt(entries, index, updates)[index]
                                         ELSE NullResult,
                    threw |-> IF index # 0 THEN WriteThrows(FOOD_ENTRIES)
                                           ELSE ReadThrows(FOOD_ENTRIES)]
        /\ UNCHANGED <<now, tz, outside>>

deleteFoodEntry(id) ==
    /\ set(FOOD_ENTRIES, JSONArray(FilterOutId(getFoodEntries, id)))
    /\ last' = [op |-> "deleteFoodEntry", id |-> id, ret |-> TRUE,
                removed |-> Len(getFoodEntries) - Len(FilterOutId(getFoodEntries, id)),
                threw |-> WriteThrows(FOOD_ENTRIES)]
    /\ UNCHANGED <<now, tz, outside>>

(* the entry's date taken as written, the target as a local day *)
EntriesByDate_Unnormalized(entries, date) ==
    LET targetDate == ToDateString(NewDate(date))
    IN  SelectSeq(entries, LAMBDA e : e.date = targetDate)

(* entries.filter(e => new Date(e.date).toDateString() === targetDate) *)
EntriesByDate(entries, date) ==
    LET targetDate == ToDateString(NewDate(date))
    IN  SelectSeq(entries, LAMBDA e : ToDateString(ParseDate(e.date)) = targetDate)

(* parseInt(x) of a number that is an integer *)
ParseInt(x) == x

RECURSIVE calculateTotalCalories(_)
(* entries.reduce((sum, e) => sum + (parseInt(e.calories) || 0), 0) *)
calculateTotalCalories(entries) ==
    IF entries = <<>> THEN 0
    ELSE calculateTotalCalories(SubSeq(entries, 1, Len(entries) - 1))
         + (IF ParseInt(entries[Len(entries)].calories) # 0
            THEN ParseInt(entries[Len(entries)].calories) ELSE 0)

(* Storage.getFoodEntriesByDate and the total its callers compute from it *)
getFoodEntriesByDate(date) ==
    /\ last' = [op |-> "getFoodEntriesByDate", date |-> date,
                ret |-> EntriesByDate(getFoodEntries, date),
                total |-> calculateTotalCalories(EntriesByDate(getFoodEntries, date)),
                threw |-> ReadThrows(FOOD_ENTRIES)]
    /\ UNCHANGED <<store, now, tz, outside>>

(* entries.filter(e => entryDate >= start && entryDate <= end) *)
EntriesByDateRange(entries, startDate, endDate) ==
    LET start == StartOfDay(NewDate(startDate))
        end == EndOfDay(NewDate(endDate))
    IN  SelectSeq(entries, LAMBDA e : ParseDate(e.date) >= start /\ ParseDate(e.date) <= end)

getFoodEntriesByDateRange(startDate, endDate) ==
    /\ last' = [op |-> "getFoodEntriesByDateRange", startDate |-> startDate,
                endDate |-> endDate,
                ret |-> EntriesByDateRange(getFoodEntries, startDate, endDate),
                threw |-> ReadThrows(FOOD_ENTRIES)]
    /\ UNCHANGED <<store, now, tz, outside>>

-----------------------------------------------------------------------------
(* Recipes *)

RecipeInputs ==
    {[name |-> "Soup", calories |-> "300", ingredients |-> "water", instructions |-> "boil",
      image |-> Null],
     [name |-> "Cake", calories |-> "", ingredients |-> "flour", instructions |-> "bake",
      image |-> "data:image/png;base64"]}

RecipeUpdates ==
    {[calories |-> "450", image |-> Null]}

getRecipes == get(RECIPES, <<>>)

saveRecipe(input) ==
    LET recipes == getRecipes
        recipe == Enrich(input)
    IN  /\ set(RECIPES, JSONArray(Append(recipes, recipe)))
        /\ last' = [op |-> "saveRecipe", input |-> input, ret |-> recipe,
                    threw |-> WriteThrows(RECIPES)]
        /\ UNCHANGED <<now, tz, outside>>

updateRecipe(id, updates) ==
    LET recipes == getRecipes
        index == FindIndexById(recipes, id)
    IN  /\ IF index # 0
           THEN set(RECIPES, JSONArray(UpdateAt(recipes, index, updates)))
           ELSE UNCHANGED store
        /\ last' = [op |-> "updateRecipe", id |-> id, updates |-> updates,
                    index |-> index,
                    ret |-> IF index # 0 THEN UpdateAt(recipes, index, updates)[index]
                                         ELSE NullResult,
                    threw |-> IF index # 0 THEN WriteThrows(RECIPES)
                                           ELSE ReadThrows(RECIPES)]
        /\ UNCHANGED <<now, tz, outside>>

deleteRecipe(id) ==
    /\ set(RECIPES, JSONArray(FilterOutId(getRecipes, id)))
    /\ last' = [op |-> "deleteRecipe", id |-> id, ret |-> TRUE,
                removed |-> Len(getRecipes) - Len(FilterOutId(getRecipes, id)),
                threw |-> WriteThrows(RECIPES)]
    /\ UNCHANGED <<now, tz, outside>>

(* recipes.find(r => r.id === id) *)
FindById(list, id) ==
    IF FindIndexById(list, id) # 0 THEN list[FindIndexById(list, id)] ELSE UndefinedResult

getRecipeById(id) ==
    /\ last' = [op |-> "getRecipeById", id |-> id, ret |-> FindById(getRecipes, id),
                threw |-> ReadThrows(RECIPES)]
    /\ UNCHANGED <<store, now, tz, outside>>

-----------------------------------------------------------------------------
(* Settings *)

DefaultSettings == [calorieGoal |-> 2000, weightUnit |-> "kg"]

SettingsInputs ==
    {<<>>}
    \cup {[calorieGoal |-> g] : g \in {1800, 2200}}
    \cup {[weightUnit |-> u] : u \in {"kg", "lb"}}
    \cup {[calorieGoal |-> g, weightUnit |-> u] : g \in {1800, 2200}, u \in {"kg", "lb"}}

(* the read without the fallback to the defaults *)
getSettings_NoDefault == get(SETTINGS, <<>>)

getSettings == get(SETTINGS, DefaultSettings)

saveSettings(settings) ==
    LET current == getSettings
    IN  /\ set(SETTINGS, JSONObject(Merge(current, settings)))
        /\ last' = [op |-> "saveSettings", settings |-> settings,
                    ret |-> StorageSet(SETTINGS).value,
                    threw |-> Load(SETTINGS, DefaultSettings).threw
                              \/ StorageSet(SETTINGS).threw]
        /\ UNCHANGED <<now, tz, outside>>

readSettings ==
    /\ last' = [op |-> "getSettings", ret |-> getSettings,
                threw |-> Load(SETTINGS, DefaultSettings).threw]
    /\ UNCHANGED <<store, now, tz, outside>>

-----------------------------------------------------------------------------
(* The generic methods called directly, the list methods, and localStorage
   starting or ceasing to fail *)

storageGet(key) ==
    /\ last' = [op |-> "get", key |-> key, threw |-> StorageGet(key).threw,
                isNull |-> StorageGet(key).isNull, ret |-> StorageGet(key).value]
    /\ UNCHANGED <<store, now, tz, outside>>

storageSet(key, value) ==
    /\ set(key, value)
    /\ last' = [op |-> "set", key |-> key, value |-> value,
                threw |-> StorageSet(key).threw, ret |-> StorageSet(key).value]
    /\ UNCHANGED <<now, tz, outside>>

(* getFoodEntries(), getWeightEntries(), getRecipes() *)
listEntries(key) ==
    /\ last' = [op |-> "list", key |-> key, ret |-> get(key, <<>>),
                threw |-> Load(key, <<>>).threw]
    /\ UNCHANGED <<store, now, tz, outside>>

FaultChange ==
    /\ \E f \in SUBSET Faults : Cardinality(f) <= 1 /\ f # fault /\ fault' = f
    /\ last' = [op |-> "fault"]
    /\ UNCHANGED <<store, now, tz, dstEnd, sw, session, form>>

-----------------------------------------------------------------------------
(* App.updateAnalytics.  The clock is read by Utils.getWeekStart() when the
   handler starts, by Utils.getWeekEnd() untilWeekEnd ticks later, and by
   every new Date() from the weekly divisor on, elapsed ticks after the
   start. *)

(* the calories of the entries of the window of addDays(date, -7 * (w + 1))
   and the six days after it *)
MonthBucket(entries, date, w) ==
    LET wStart == addDays(date, -7 * (w + 1))
        wEnd == addDays(wStart, 6)
    IN  calculateTotalCalories(
            EntriesByDateRange(entries, DateObject(wStart), DateObject(wEnd)))

updateAnalytics(untilWeekEnd, elapsed) ==
    LET entries == getFoodEntries
        weekStart == getWeekStart(now)
        weekEnd == getWeekEnd(now + untilWeekEnd)
        weekEntries == EntriesByDateRange(entries, DateObject(weekStart), DateObject(weekEnd))
        weekTotal == calculateTotalCalories(weekEntries)
        today == now + elapsed
        weekDays == getDaysBetween(weekStart, today)
        monthStart == getMonthStart(today)
        monthEnd == getMonthEnd(today)
        monthEntries == EntriesByDateRange(entries, DateObject(monthStart),
                                           DateObject(monthEnd))
        monthTotal == calculateTotalCalories(monthEntries)
        monthDays == getDate(today)
    IN  /\ now' = today
        /\ last' = [op |-> "updateAnalytics",
                    weekTotal |-> weekTotal,
                    weekDays |-> weekDays,
                    weekAvg |-> Round(weekTotal, weekDays),
                    weekData |-> [i \in 1..7 |->
                        calculateTotalCalories(
                            EntriesByDate(entries, DateObject(addDays(weekStart, i - 1))))],
                    monthTotal |-> monthTotal,
                    monthDays |-> monthDays,
                    monthAvg |-> Round(monthTotal, monthDays),
                    monthData |-> [i \in 1..4 |-> MonthBucket(entries, today, 4 - i)]]
        /\ UNCHANGED <<store, tz, outside>>

-----------------------------------------------------------------------------
(* The service worker.  sw.caches is the set of names in the origin's
   CacheStorage; the activate handler is a chain of promises, one step of
   the model for each promise that resolves. *)

CACHE_NAME == "calorieflow-v1"

(* caches that earlier versions of the worker may have left behind *)
OldCacheNames == {"calorieflow-v0", "calorieflow-static", "calorieflow-pages",
                  "calorieflow-icons"}

(* every cache taken for an old one *)
IsOldCache_Every(cacheName) == TRUE

(* cacheName !== CACHE_NAME *)
IsOldCache(cacheName) == cacheName # CACHE_NAME

(* the activate event is dispatched: the handler calls caches.keys() *)
activateEvent ==
    /\ sw.phase = "installed"
    /\ sw' = [sw EXCEPT !.phase = "keys", !.atActivation = sw.caches]
    /\ last' = [op |-> "activate"]
    /\ UNCHANGED <<store, now, tz, fault, dstEnd, session, form>>

(* caches.keys() resolves: caches.delete is called for each old name *)
keysResolved ==
    /\ sw.phase = "keys"
    /\ sw' = [sw EXCEPT !.phase = "deleting",
                        !.pending = {n \in sw.caches : IsOldCache(n)},
                        !.deleted = {n \in sw.caches : IsOldCache(n)}]
    /\ last' = [op |-> "keysResolved"]
    /\ UNCHANGED <<store, now, tz, fault, dstEnd, session, form>>

(* one caches.delete(cacheName) resolves *)
cacheDeleted(cacheName) ==
    /\ sw.phase = "deleting"
    /\ cacheName \in sw.pending
    /\ sw' = [sw EXCEPT !.caches = sw.caches \ {cacheName},
                        !.pending = sw.pending \ {cacheName}]
    /\ last' = [op |-> "cacheDeleted", cacheName |-> cacheName]
    /\ UNCHANGED <<store, now, tz, fault, dstEnd, session, form>>

(* Promise.all resolves, then self.clients.claim(): the handler is done *)
clientsClaim ==
    /\ sw.phase = "deleting"
    /\ sw.pending = {}
    /\ sw' = [sw EXCEPT !.phase = "activated"]
    /\ last' = [op |-> "clientsClaim"]
    /\ UNCHANGED <<store, now, tz, fault, dstEnd, session, form>>

(* the fetch handler of the active worker stores a response:
   caches.open(CACHE_NAME) makes the cache if there is none *)
fetchOpensCache ==
    /\ sw.phase = "activated"
    /\ CACHE_NAME \notin sw.caches
    /\ sw' = [sw EXCEPT !.caches = sw.caches \cup {CACHE_NAME}]
    /\ last' = [op |-> "fetch"]
    /\ UNCHANGED <<store, now, tz, fault, dstEnd, session, form>>

-----------------------------------------------------------------------------
(* The service worker: install and fetch.  A URL is the sequence of the
   pieces of its text, the last piece being the path; sw.stored is the set
   of URLs that have a response in the cache CACHE_NAME, sw.puts the set of
   URLs for which the fetch handler has a cache.put under way, sw.request
   the request whose respondWith promise has not settled yet. *)

(* self.location.origin *)
ORIGIN == <<"https://calorieflow", ".example">>

(* another site, and a site whose URL text begins with the text of ORIGIN *)
FontsOrigin == <<"https://fonts", ".example">>
LookalikeOrigin == <<"https://calorieflow", ".example", ".evil.example">>

Url(origin, path) == origin \o <<path>>

(* text.startsWith(prefix) *)
StartsWith(text, prefix) ==
    Len(text) >= Len(prefix) /\ SubSeq(text, 1, Len(prefix)) = prefix

ASSETS_TO_CACHE ==
    {"/", "/index.html", "/css/styles.css", "/js/app.js", "/js/charts.js",
     "/js/storage.js", "/js/utils.js", "/manifest.json", "/icons/icon-72.png",
     "/icons/icon-96.png", "/icons/icon-128.png", "/icons/icon-144.png",
     "/icons/icon-152.png", "/icons/icon-192.png", "/icons/icon-384.png",
     "/icons/icon-512.png"}

(* the URLs cache.addAll(ASSETS_TO_CACHE) stores *)
AssetUrls == {Url(ORIGIN, path) : path \in ASSETS_TO_CACHE}

(* the requests the pages make *)
RequestUrls ==
    {Url(ORIGIN, "/"), Url(ORIGIN, "/recipes"), Url(FontsOrigin, "/css"),
     Url(LookalikeOrigin, "/")}

HtmlAccept == {"text/html", "application/xhtml+xml"}
AnyAccept == {"*/*"}

Requests == [method : {"GET", "POST"}, url : RequestUrls, accept : {HtmlAccept, AnyAccept}]

NoRequest == [method |-> "", url |-> <<>>, accept |-> {}]

(* responses: of the cache, of the network, and undefined *)
CachedResponse(url) == [from |-> "cache", url |-> url, status |-> 200]
NetworkResponse(url, status) == [from |-> "network", url |-> url, status |-> status]
NoResponse == [from |-> "none", url |-> <<>>, status |-> 0]

Statuses == {200, 404}

(* the install event is dispatched: the handler calls caches.open *)
installEvent ==
    /\ sw.phase = "parsed"
    /\ sw' = [sw EXCEPT !.phase = "opening"]
    /\ last' = [op |-> "install"]
    /\ UNCHANGED <<store, now, tz, fault, dstEnd, session, form>>

(* caches.open(CACHE_NAME) resolves: cache.addAll(ASSETS_TO_CACHE) is called *)
cacheOpened ==
    /\ sw.phase = "opening"
    /\ sw' = [sw EXCEPT !.phase = "adding", !.caches = sw.caches \cup {CACHE_NAME}]
    /\ last' = [op |-> "cacheOpened"]
    /\ UNCHANGED <<store, now, tz, fault, dstEnd, session, form>>

(* cache.addAll resolves, every asset fetched and stored; then
   self.skipWaiting(), and the promise given to waitUntil is fulfilled *)
addAllResolved ==
    /\ sw.phase = "adding"
    /\ sw' = [sw EXCEPT !.phase = "installed", !.stored = sw.stored \cup AssetUrls]
    /\ last' = [op |-> "installDone", caught |-> FALSE]
    /\ UNCHANGED <<store, now, tz, fault, dstEnd, session, form>>

(* cache.addAll rejects because one asset could not be fetched or stored:
   it has stored none; the catch logs the error, and the promise given to
   waitUntil is fulfilled *)
addAllRejected(asset) ==
    /\ sw.phase = "adding"
    /\ sw' = [sw EXCEPT !.phase = "installed"]
    /\ last' = [op |-> "installDone", caught |-> TRUE, asset |-> asset]
    /\ UNCHANGED <<store, now, tz, fault, dstEnd, session, form>>

(* networkResponse.status !== 200 is the only test: every response is stored *)
ShouldCache_Always(status) == TRUE

(* !(!networkResponse || networkResponse.status !== 200) *)
ShouldCache(status) == status = 200

(* the guards of the fetch listener: a GET whose URL starts with the origin *)
IsHandled(request) ==
    request.method = "GET" /\ StartsWith(request.url, ORIGIN)

(* a fetch event: the listener returns, or calls respondWith(caches.match) *)
fetchEvent(request) ==
    /\ sw.phase = "activated"
    /\ sw.request = NoRequest
    /\ IF IsHandled(request)
       THEN /\ sw' = [sw EXCEPT !.request = request, !.step = "matching"]
            /\ last' = [op |-> "respondWith", request |-> request]
       ELSE /\ sw' = sw
            /\ last' = [op |-> "passThrough", request |-> request]
    /\ UNCHANGED <<store, now, tz, fault, dstEnd, session, form>>

(* caches.match(event.request) resolves: the cached response is the answer,
   or fetch(event.request) is called *)
matchResolved ==
    /\ sw.step = "matching"
    /\ IF sw.request.url \in sw.stored
       THEN /\ sw' = [sw EXCEPT !.request = NoRequest, !.step = "idle"]
            /\ last' = [op |-> "respond", request |-> sw.request,
                        response |-> CachedResponse(sw.request.url), fetched |-> FALSE]
       ELSE /\ sw' = [sw EXCEPT !.step = "fetching"]
            /\ last' = [op |-> "fetch", request |-> sw.request]
    /\ UNCHANGED <<store, now, tz, fault, dstEnd, session, form>>

(* fetch resolves with a response: it is the answer, and a copy of a
   response to be cached is handed to caches.open(CACHE_NAME).then(put) *)
networkResponded(status) ==
    /\ sw.step = "fetching"
    /\ sw' = [sw EXCEPT !.request = NoRequest, !.step = "idle",
                        !.puts = IF ShouldCache(status) THEN sw.puts \cup {sw.request.url}
                                                        ELSE sw.puts]
    /\ last' = [op |-> "respond", request |-> sw.request,
                response |-> NetworkResponse(sw.request.url, status), fetched |-> TRUE]
    /\ UNCHANGED <<store, now, tz, fault, dstEnd, session, form>>

(* fetch rejects: for a request that accepts text/html the answer is
   caches.match('/index.html'), for any other the answer is undefined *)
networkFailed ==
    /\ sw.step = "fetching"
    /\ IF "text/html" \in sw.request.accept
       THEN /\ sw' = [sw EXCEPT !.step = "fallback"]
            /\ last' = [op |-> "fetchFailed", request |-> sw.request]
       ELSE /\ sw' = [sw EXCEPT !.request = NoRequest, !.step = "idle"]
            /\ last' = [op |-> "respond", request |-> sw.request,
                        response |-> NoResponse, fetched |-> TRUE]
    /\ UNCHANGED <<store, now, tz, fault, dstEnd, session, form>>

(* caches.match('/index.html') resolves: the response, or undefined *)
fallbackResolved ==
    /\ sw.step = "fallback"
    /\ sw' = [sw EXCEPT !.request = NoRequest, !.step = "idle"]
    /\ last' = [op |-> "respond", request |-> sw.request,
                response |-> IF Url(ORIGIN, "/index.html") \in sw.stored
                             THEN CachedResponse(Url(ORIGIN, "/index.html"))
                             ELSE NoResponse,
                fetched |-> TRUE]
    /\ UNCHANGED <<store, now, tz, fault, dstEnd, session, form>>

(* caches.open(CACHE_NAME) resolves and cache.put stores the copy *)
cachePut(url) ==
    /\ url \in sw.puts
    /\ sw' = [sw EXCEPT !.puts = sw.puts \ {url},
                        !.stored = sw.stored \cup {url},
                        !.caches = sw.caches \cup {CACHE_NAME}]
    /\ last' = [op |-> "cachePut", url |-> url]
    /\ UNCHANGED <<store, now, tz, fault, dstEnd, session, form>>

-----------------------------------------------------------------------------
(* Auth.  A PIN is the sequence of its UTF-16 code units.  A 32-bit integer
   is the pair <<high, low>> of its 16-bit halves, so that the arithmetic of
   hashPin stays inside the integers of the model. *)

STORAGE_KEY == "calorieflow_pin_hash"
AUTHENTICATED == "calorieflow_authenticated"

Half == 65536

(* ((hash << 5) - hash) + char, then hash & hash: 31 * hash + char in 32 bits *)
HashStep(hash, char) ==
    LET low == 31 * hash[2] + char
        high == 31 * hash[1] + (low \div Half)
    IN  <<high % Half, low % Half>>

RECURSIVE HashLoop(_, _)
HashLoop(pin, i) ==
    IF i = 0 THEN <<0, 0>> ELSE HashStep(HashLoop(pin, i - 1), pin[i])

(* Math.abs of a signed 32-bit integer: a negative one is negated *)
MathAbs(hash) ==
    IF hash[1] < Half \div 2 THEN hash
    ELSE IF hash[2] = 0 THEN <<Half - hash[1], 0>>
    ELSE <<Half - 1 - hash[1], Half - hash[2]>>

(* 'cf_' + Math.abs(hash).toString(36) + '_' + pin.length: the text is
   determined by, and determines, the absolute value and the length *)
hashPin(pin) == [abs |-> MathAbs(HashLoop(pin, Len(pin))), length |-> Len(pin)]

(* the PIN is taken whatever its length *)
TooShort_Never(pin) == FALSE

(* pin.length < 4 *)
TooShort(pin) == Len(pin) < 4

(* removeItem that removes nothing *)
removeItem_Keep(storage, key) == storage

(* storage.removeItem(key) *)
removeItem(storage, key) == [k \in (DOMAIN storage) \ {key} |-> storage[k]]

(* storage.setItem(key, value) *)
setItem(storage, key, value) ==
    [k \in (DOMAIN storage) \cup {key} |-> IF k = key THEN value ELSE storage[k]]

(* what Auth.verifyPin(pin) returns when localStorage is st and can be read *)
VerifyPinIn(st, pin) ==
    IF STORAGE_KEY \notin DOMAIN st THEN FALSE
    ELSE hashPin(pin) = st[STORAGE_KEY]

VerifyPin(pin) == VerifyPinIn(store, pin)

isPinSet ==
    /\ last' = IF "getItem" \in fault
               THEN [op |-> "isPinSet", threw |-> TRUE]
               ELSE [op |-> "isPinSet", threw |-> FALSE,
                     ret |-> STORAGE_KEY \in DOMAIN store]
    /\ UNCHANGED <<store, now, tz, outside>>

setPin(pin) ==
    /\ IF TooShort(pin)
       THEN /\ last' = [op |-> "setPin", pin |-> pin, threw |-> FALSE,
                        ret |-> [success |-> FALSE,
                                 error |-> "PIN must be at least 4 characters"]]
            /\ UNCHANGED store
       ELSE IF "setItem" \in fault
       THEN /\ last' = [op |-> "setPin", pin |-> pin, threw |-> TRUE]
            /\ UNCHANGED store
       ELSE /\ last' = [op |-> "setPin", pin |-> pin, threw |-> FALSE,
                        ret |-> [success |-> TRUE]]
            /\ store' = setItem(store, STORAGE_KEY, hashPin(pin))
    /\ UNCHANGED <<now, tz, outside>>

verifyPin(pin) ==
    /\ last' = IF "getItem" \in fault
               THEN [op |-> "verifyPin", pin |-> pin, threw |-> TRUE]
               ELSE [op |-> "verifyPin", pin |-> pin, threw |-> FALSE,
                     ret |-> VerifyPin(pin)]
    /\ UNCHANGED <<store, now, tz, outside>>

isAuthenticated ==
    /\ last' = [op |-> "isAuthenticated",
                ret |-> AUTHENTICATED \in DOMAIN session
                          /\ session[AUTHENTICATED] = "true"]
    /\ UNCHANGED <<store, now, tz, outside>>

authenticate ==
    /\ session' = setItem(session, AUTHENTICATED, "true")
    /\ last' = [op |-> "authenticate"]
    /\ UNCHANGED <<store, now, tz, fault, dstEnd, sw, form>>

logout ==
    /\ session' = removeItem(session, AUTHENTICATED)
    /\ last' = [op |-> "logout"]
    /\ UNCHANGED <<store, now, tz, fault, dstEnd, sw, form>>

resetPin ==
    /\ store' = removeItem(store, STORAGE_KEY)
    /\ session' = removeItem(session, AUTHENTICATED)
    /\ last' = [op |-> "resetPin"]
    /\ UNCHANGED <<now, tz, fault, dstEnd, sw, form>>

-----------------------------------------------------------------------------
(* The recipe form of the page.  form holds the values of the inputs of
   #recipe-form (id is the hidden #recipe-id, file the file chosen in
   #recipe-image), whether #recipe-modal is shown, and, in pending, the
   submit handlers suspended at await Utils.fileToBase64: each with its
   locals id and imageFile, and with fired, the values the inputs had when
   the submit event fired, which the handler does not keep.  The clock
   moves on by a tick with every handler that writes the recipes. *)

FormFields == {"name", "calories", "ingredients", "instructions"}

(* the values of the inputs of the form f *)
FormValues(f) == [k \in FormFields |-> f[k]]

(* the list without its element at index i *)
WithoutIndex(list, i) == SubSeq(list, 1, i - 1) \o SubSeq(list, i + 1, Len(list))

(* reader.result of readAsDataURL(file) *)
fileToBase64(file) == "data:" \o file

(* value || '' *)
OrEmpty(value) == IF value \in {Undefined, Null, ""} THEN "" ELSE value

(* the recipe object the submit handler builds from the inputs of f *)
RecipeOfForm(f, image) ==
    [name |-> f.name, calories |-> f.calories, ingredients |-> f.ingredients,
     instructions |-> f.instructions, image |-> image]

(* the id of the form as it is when the write is made *)
TargetId_OfForm(id) == form.id

(* const id = Utils.$('#recipe-id').value, read when the submit event fires *)
TargetId(id) == id

(* if (id) Storage.updateRecipe(id, recipe) else Storage.saveRecipe(recipe):
   what it does to localStorage *)
WriteRecipe(id, recipe) ==
    LET recipes == getRecipes
        index == FindIndexById(recipes, id)
    IN  IF id # ""
        THEN IF index # 0
             THEN set(RECIPES, JSONArray(UpdateAt(recipes, index, recipe)))
             ELSE UNCHANGED store
        ELSE set(RECIPES, JSONArray(Append(recipes, Enrich(recipe))))

(* App.openRecipeModal(): the form reset and shown *)
addRecipe ==
    /\ form' = [ResetForm EXCEPT !.open = TRUE, !.pending = form.pending]
    /\ last' = [op |-> "openRecipeModal", id |-> ""]
    /\ UNCHANGED <<store, now, tz, fault, dstEnd, sw, session>>

(* App.editRecipe(id): openRecipeModal(recipe) when the recipe is found *)
editRecipe(id) ==
    LET recipe == FindById(getRecipes, id)
    IN  /\ form' = IF recipe = UndefinedResult THEN form
                   ELSE [open |-> TRUE, id |-> recipe.id,
                         name |-> OrEmpty(Prop(recipe, "name")),
                         calories |-> OrEmpty(Prop(recipe, "calories")),
                         ingredients |-> OrEmpty(Prop(recipe, "ingredients")),
                         instructions |-> OrEmpty(Prop(recipe, "instructions")),
                         file |-> NoFile, pending |-> form.pending]
        /\ last' = [op |-> "editRecipe", id |-> id]
        /\ UNCHANGED <<store, now, tz, fault, dstEnd, sw, session>>

(* the user types into an input of the form *)
typeInto(field, value) ==
    /\ form.open
    /\ form' = [form EXCEPT ![field] = value]
    /\ last' = [op |-> "input", field |-> field]
    /\ UNCHANGED <<store, now, tz, fault, dstEnd, sw, session>>

(* the user chooses a file in #recipe-image *)
chooseImage(file) ==
    /\ form.open
    /\ form' = [form EXCEPT !.file = file]
    /\ last' = [op |-> "chooseImage", file |-> file]
    /\ UNCHANGED <<store, now, tz, fault, dstEnd, sw, session>>

(* the submit event: without a file the handler runs to its end, with a
   file it is suspended at the await *)
submitRecipeForm ==
    /\ form.open
    /\ IF form.file = NoFile
       THEN /\ WriteRecipe(TargetId(form.id), RecipeOfForm(form, Null))
            /\ now' = now + 1
            /\ form' = [form EXCEPT !.open = FALSE]
            /\ last' = [op |-> "submit", id |-> form.id, imageFile |-> NoFile,
                        awaited |-> FALSE, fired |-> FormValues(form),
                        recipe |-> RecipeOfForm(form, Null)]
       ELSE /\ UNCHANGED <<store, now>>
            /\ form' = [form EXCEPT !.pending =
                            Append(@, [id |-> form.id, imageFile |-> form.file,
                                       fired |-> FormValues(form)])]
            /\ last' = [op |-> "submitSuspended", id |-> form.id]
    /\ UNCHANGED <<tz, fault, dstEnd, sw, session>>

(* fileToBase64 resolves: the handler goes on from the await to its end *)
imageConverted(i) ==
    /\ i \in 1..Len(form.pending)
    /\ LET handler == form.pending[i]
           recipe == RecipeOfForm(form, fileToBase64(handler.imageFile))
       IN  /\ WriteRecipe(TargetId(handler.id), recipe)
           /\ form' = [form EXCEPT !.open = FALSE, !.pending = WithoutIndex(@, i)]
           /\ last' = [op |-> "submit", id |-> handler.id,
                       imageFile |-> handler.imageFile, awaited |-> TRUE,
                       fired |-> handler.fired, recipe |-> recipe]
    /\ now' = now + 1
    /\ UNCHANGED <<tz, fault, dstEnd, sw, session>>

(* fileToBase64 rejects (reader.onerror): the handler ends at the await *)
imageFailed(i) ==
    /\ i \in 1..Len(form.pending)
    /\ form' = [form EXCEPT !.pending = WithoutIndex(@, i)]
    /\ last' = [op |-> "submitRejected", id |-> form.pending[i].id]
    /\ UNCHANGED <<store, now, tz, fault, dstEnd, sw, session>>

(* App.deleteRecipe(id), confirmed *)
deleteRecipeConfirmed(id) ==
    /\ set(RECIPES, JSONArray(FilterOutId(getRecipes, id)))
    /\ last' = [op |-> "deleteRecipeConfirmed", id |-> id]
    /\ now' = now + 1
    /\ UNCHANGED <<tz, outside>>

(* App.closeModal() *)
closeModal ==
    /\ form.open
    /\ form' = [form EXCEPT !.open = FALSE]
    /\ last' = [op |-> "closeModal"]
    /\ UNCHANGED <<store, now, tz, fault, dstEnd, sw, session>>

-----------------------------------------------------------------------------
(* The clock *)

Tick ==
    /\ now < MaxNow
    /\ now' = now + 1
    /\ last' = [op |-> "tick"]
    /\ UNCHANGED <<store, tz, outside>>

Ids == {ToString(t) : t \in 0..MaxNow}

-----------------------------------------------------------------------------
(* Specifications *)

(* localStorage works, the zone has no daylight saving time, no service
   worker event is under way, nobody has signed in and the recipe form is
   closed *)
Quiet ==
    /\ fault = {}
    /\ dstEnd = {}
    /\ sw = NoWorker
    /\ session = <<>>
    /\ form = ResetForm

Init ==
    /\ store = <<>>
    /\ now = 0
    /\ tz \in TZOffsets
    /\ last = [op |-> "init"]
    /\ Quiet

NextWeight ==
    \/ \E d \in Days, w \in Weights : saveWeightEntry(d, w)
    \/ \E id \in Ids : deleteWeightEntry(id)
    \/ getLatestWeight
    \/ Tick

SpecWeight == Init /\ [][NextWeight]_vars

NextFood ==
    \/ \E e \in FoodInputs : Len(getFoodEntries) < MaxEntries /\ saveFoodEntry(e)
    \/ \E id \in Ids, u \in FoodUpdates : updateFoodEntry(id, u)
    \/ \E id \in Ids : deleteFoodEntry(id)
    \/ \E d \in Days : getFoodEntriesByDate(DateString(d))

NextRecipe ==
    \/ \E r \in RecipeInputs : Len(getRecipes) < MaxEntries /\ saveRecipe(r)
    \/ \E id \in Ids, u \in RecipeUpdates : updateRecipe(id, u)
    \/ \E id \in Ids : deleteRecipe(id)
    \/ \E id \in Ids : getRecipeById(id)

(* the other collections hold no record *)
OthersEmpty(key) ==
    \A k \in {FOOD_ENTRIES, WEIGHT_ENTRIES, RECIPES} \ {key} : get(k, <<>>) = <<>>

(* the three repositories, one collection populated at a time *)
NextStorage ==
    \/ OthersEmpty(FOOD_ENTRIES) /\ NextFood
    \/ OthersEmpty(RECIPES) /\ NextRecipe
    \/ /\ OthersEmpty(WEIGHT_ENTRIES)
       /\ \/ \E d \in Days, w \in Weights : saveWeightEntry(d, w)
          \/ \E id \in Ids : deleteWeightEntry(id)
    \/ Tick

SpecStorage == Init /\ [][NextStorage]_vars

(* food entries of the given days, saved one per tick in ascending order *)
RangeDays == 0..MaxRangeDay

SavedOnDays(S) ==
    LET order == CHOOSE f \in [1..Cardinality(S) -> S] :
                    \A i, j \in 1..Cardinality(S) : i < j => f[i] < f[j]
    IN  [i \in 1..Cardinality(S) |->
            JSONObject([name |-> "Egg", quantity |-> "2", calories |-> 70, date |-> order[i],
                        id |-> ToString(i - 1), createdAt |-> i - 1])]

InitRange ==
    /\ \E S \in SUBSET RangeDays :
          /\ store = (FOOD_ENTRIES :> SavedOnDays(S))
          /\ now = Cardinality(S)
    /\ tz \in TZOffsets
    /\ last = [op |-> "init"]
    /\ Quiet

NextRange ==
    \/ \E a, b \in 1..(MaxRangeDay - 1) :
          a <= b /\ getFoodEntriesByDateRange(DateString(a), DateString(b))
    \/ \E a, b \in 1..(MaxRangeDay - 1) :
          a <= b /\ getFoodEntriesByDateRange(DateObject(LocalMidnight(a)),
                                              DateObject(LocalMidnight(b)))

SpecRange == InitRange /\ [][NextRange]_vars

(* the four namespaces populated side by side, with localStorage failing
   at times; up to MaxRecords records a collection, all calls within one
   clock tick *)
NextFault ==
    \/ Len(getFoodEntries) < MaxRecords
          /\ saveFoodEntry([name |-> "Egg", quantity |-> "2", calories |-> 70, date |-> 1])
    \/ \E id \in {ToString(0)}, u \in FoodUpdates : updateFoodEntry(id, u)
    \/ \E id \in {ToString(0)} : deleteFoodEntry(id)
    \/ getFoodEntriesByDate(DateString(1))
    \/ getFoodEntriesByDateRange(DateString(1), DateString(1))
    \/ \E d \in Days :
          /\ Len(getWeightEntries) < MaxRecords \/ FindIndexByDate(getWeightEntries, d) # 0
          /\ saveWeightEntry(d, 700)
    \/ \E id \in {ToString(0)} : deleteWeightEntry(id)
    \/ getLatestWeight
    \/ \E r \in RecipeInputs : r.name = "Soup" /\ Len(getRecipes) < MaxRecords /\ saveRecipe(r)
    \/ \E id \in {ToString(0)}, u \in RecipeUpdates : updateRecipe(id, u)
    \/ \E id \in {ToString(0)} : deleteRecipe(id)
    \/ \E id \in {ToString(0)} : getRecipeById(id)
    \/ \E k \in KEYS \ {SETTINGS} : listEntries(k)
    \/ \E t \in {[calorieGoal |-> 1800], [weightUnit |-> "lb"]} : saveSettings(t)
    \/ readSettings
    \/ \E k \in KEYS : storageGet(k)
    \/ \E k \in KEYS : storageSet(k, IF k = SETTINGS THEN DefaultSettings ELSE <<>>)
    \/ FaultChange

(* the failures do not depend on the time zone: the device is at UTC *)
InitFault == Init /\ tz = 0

SpecFault == InitFault /\ [][NextFault]_vars

(* the date functions on instants around the turn of the year and around
   the end of daylight saving time, the first Sunday of April 1970 *)
DstEndDay == 94

DateDays == ((-MaxSpan)..MaxSpan) \cup ((DstEndDay - MaxSpan)..(DstEndDay + MaxSpan))

DateInstants == {d * TicksPerDay + h : d \in DateDays, h \in {0, 1, 2, 12, 23}}

InitDates ==
    /\ store = <<>>
    /\ now = 0
    /\ tz \in TZOffsets
    /\ last = [op |-> "init"]
    /\ fault = {}
    /\ dstEnd \in {{}, {DstEndDay * TicksPerDay + 2 * DstShift - (tz + DstShift)}}
    /\ sw = NoWorker
    /\ session = <<>>
    /\ form = ResetForm

(* one end of the pairs whose distance is taken: noon of the day before
   daylight saving time ends, and the last tick of 1969 *)
AnchorInstants == {(DstEndDay - 1) * TicksPerDay + 12, -1}

NextDates ==
    \/ \E t \in DateInstants : weekStartOf(t)
    \/ \E a \in AnchorInstants, b \in DateInstants : daysBetween(a, b)
    \/ \E a \in AnchorInstants, b \in DateInstants : daysBetween(b, a)

SpecDates == InitDates /\ [][NextDates]_vars

(* the analytics opened during the week of Monday 1970-03-30, which runs
   into April, with up to MaxLogged food entries logged on days between
   29 days before today and tomorrow *)
AnalyticsMonday == 88

AnalyticsInstants ==
    {d * TicksPerDay + h : d \in AnalyticsMonday..(AnalyticsMonday + 6), h \in {0, 12, 23}}

EntryOffsets == {-29, -28, -22, -21, -15, -14, -8, -7, -1, 0, 1}

InitAnalytics ==
    /\ tz \in TZOffsets
    /\ dstEnd = {}
    /\ fault = {}
    /\ sw = NoWorker
    /\ session = <<>>
    /\ form = ResetForm
    /\ now \in AnalyticsInstants
    /\ \E S \in SUBSET {ToDateString(now) + o : o \in EntryOffsets} :
          /\ Cardinality(S) <= MaxLogged
          /\ store = (FOOD_ENTRIES :> SavedOnDays(S))
    /\ last = [op |-> "init"]

NextAnalytics ==
    \E elapsed \in 0..MaxElapsed, untilWeekEnd \in 0..MaxElapsed :
        /\ untilWeekEnd <= elapsed
        /\ now + elapsed <= (AnalyticsMonday + 7) * TicksPerDay
        /\ updateAnalytics(untilWeekEnd, elapsed)

SpecAnalytics == InitAnalytics /\ [][NextAnalytics]_vars

(* the worker installed, with any caches left in the origin; the current
   cache is missing if the install could not open it *)
InitWorker ==
    /\ store = <<>>
    /\ now = 0
    /\ tz = 0
    /\ last = [op |-> "init"]
    /\ fault = {}
    /\ dstEnd = {}
    /\ \E existing \in SUBSET (OldCacheNames \cup {CACHE_NAME}) :
          sw = [phase |-> "installed", caches |-> existing, atActivation |-> {},
                pending |-> {}, deleted |-> {}]
    /\ session = <<>>
    /\ form = ResetForm

NextWorker ==
    \/ activateEvent
    \/ keysResolved
    \/ \E n \in OldCacheNames \cup {CACHE_NAME} : cacheDeleted(n)
    \/ clientsClaim
    \/ fetchOpensCache

SpecWorker == InitWorker /\ [][NextWorker]_vars

(* the worker from its first load on: install, activate, then requests,
   one respondWith promise pending at a time *)
InitOffline ==
    /\ store = <<>>
    /\ now = 0
    /\ tz = 0
    /\ last = [op |-> "init"]
    /\ fault = {}
    /\ dstEnd = {}
    /\ \E existing \in {{}, {"calorieflow-v0"}} :
          sw = [phase |-> "parsed", caches |-> existing, atActivation |-> {},
                pending |-> {}, deleted |-> {}, stored |-> {}, puts |-> {},
                request |-> NoRequest, step |-> "idle"]
    /\ session = <<>>
    /\ form = ResetForm

NextOffline ==
    \/ installEvent
    \/ cacheOpened
    \/ addAllResolved
    \/ \E asset \in ASSETS_TO_CACHE : addAllRejected(asset)
    \/ activateEvent
    \/ keysResolved
    \/ \E n \in OldCacheNames : cacheDeleted(n)
    \/ clientsClaim
    \/ \E r \in Requests : fetchEvent(r)
    \/ matchResolved
    \/ \E status \in Statuses : networkResponded(status)
    \/ networkFailed
    \/ fallbackResolved
    \/ \E url \in RequestUrls : cachePut(url)

SpecOffline == InitOffline /\ [][NextOffline]_vars

(* a cache.put that was started is carried out *)
SpecOfflineFair ==
    SpecOffline /\ WF_vars(\E url \in RequestUrls : cachePut(url))

(* the code units of "1" and of the euro sign *)
PinChars == {49, 8364}

(* the PINs tried: every length, any of the characters first, then ones *)
Pins ==
    {[i \in 1..n |-> IF i = 1 THEN first ELSE 49] : n \in 0..MaxPinLen, first \in PinChars}

InitAuth ==
    /\ store = <<>>
    /\ now = 0
    /\ tz = 0
    /\ last = [op |-> "init"]
    /\ Quiet

NextAuth ==
    \/ isPinSet
    \/ \E pin \in Pins : setPin(pin)
    \/ \E pin \in Pins : verifyPin(pin)
    \/ isAuthenticated
    \/ authenticate
    \/ logout
    \/ resetPin

SpecAuth == InitAuth /\ [][NextAuth]_vars

(* two recipes saved earlier, one of them with an image *)
SavedRecipes ==
    <<JSONObject([name |-> "Soup", calories |-> "300", ingredients |-> "water",
                  instructions |-> "boil", image |-> Null, id |-> "0", createdAt |-> 0]),
      JSONObject([name |-> "Cake", calories |-> "", ingredients |-> "flour",
                  instructions |-> "bake", image |-> "data:image/png;base64",
                  id |-> "1", createdAt |-> 1])>>

Files == {"stew.png"}

InitForm ==
    /\ store = (RECIPES :> SavedRecipes)
    /\ now = Len(SavedRecipes)
    /\ tz = 0
    /\ last = [op |-> "init"]
    /\ Quiet

NextForm ==
    \/ addRecipe
    \/ \E id \in {"0", "1"} : editRecipe(id)
    \/ \E value \in {"Stew"} : typeInto("name", value)
    \/ \E file \in Files : chooseImage(file)
    \/ /\ IF form.file = NoFile THEN now < Len(SavedRecipes) + MaxWrites
                                 ELSE Len(form.pending) < MaxPending
       /\ submitRecipeForm
    \/ \E i \in 1..MaxPending :
          now < Len(SavedRecipes) + MaxWrites /\ imageConverted(i)
    \/ \E i \in 1..MaxPending : imageFailed(i)
    \/ \E id \in {"0", "1"} :
          now < Len(SavedRecipes) + MaxWrites /\ deleteRecipeConfirmed(id)
    \/ closeModal

SpecForm == InitForm /\ [][NextForm]_vars

NextSettings ==
    \/ \E s \in SettingsInputs : saveSettings(s)
    \/ readSettings
    \/ Tick

SpecSettings == Init /\ [][NextSettings]_vars

-----------------------------------------------------------------------------
(* Properties of the weight collection *)

Range(list) == {list[i] : i \in 1..Len(list)}

(* C1: after any sequence of saveWeightEntry and deleteWeightEntry calls
   from the empty store, no two entries of the weight collection carry the
   same calendar date. *)
C1_OneEntryPerDate ==
    \A i, j \in 1..Len(getWeightEntries) :
        i # j => getWeightEntries[i].date # getWeightEntries[j].date

(* a second save for a date was folded into the entry of that date, next to
   an entry of another date *)
C1_Witness ==
    /\ last.op = "saveWeightEntry"
    /\ last.existingIndex # 0
    /\ Len(getWeightEntries) >= 2

(* C2: after any sequence of saveWeightEntry and deleteWeightEntry calls,
   saves arriving in any date order, the persisted weight collection is
   sorted non-decreasing by date. *)
C2_SortedByDate ==
    \A i \in 1..(Len(getWeightEntries) - 1) :
        getWeightEntries[i].date <= getWeightEntries[i + 1].date

(* a save of a date earlier than an entry saved before it *)
C2_Witness ==
    /\ last.op = "saveWeightEntry"
    /\ last.existingIndex = 0
    /\ Len(getWeightEntries) >= 2
    /\ last.date < getWeightEntries[Len(getWeightEntries)].date
    /\ last.ret.createdAt > getWeightEntries[Len(getWeightEntries)].createdAt

(* C3: saveWeightEntry for a date that has an entry keeps the length, makes
   the entry of that date carry the saved weight and leaves the entries of
   all other dates as they were; for a date without an entry it adds
   exactly one entry. *)
C3_UpsertByDate ==
    [][last'.op = "saveWeightEntry" =>
        LET before == getWeightEntries
            after == getWeightEntries'
            D == last'.date
            others(list) == {e \in Range(list) : e.date # D}
        IN  /\ others(after) = others(before)
            /\ \E i \in 1..Len(after) : after[i].date = D
            /\ \A i \in 1..Len(after) : after[i].date = D => after[i].weight = last'.weight
            /\ IF \E i \in 1..Len(before) : before[i].date = D
               THEN Len(after) = Len(before)
               ELSE Len(after) = Len(before) + 1]_vars

(* a save that replaced the weight of a date which had another weight *)
C3_Witness ==
    /\ last.op = "saveWeightEntry"
    /\ last.existingIndex # 0
    /\ last.weight = 695
    /\ Len(getWeightEntries) = MaxDay

(* C10: getLatestWeight returns null when the weight collection is empty and
   otherwise the entry with the greatest date in the collection. *)
C10_LatestIsGreatestDate ==
    last.op = "getLatestWeight" =>
        IF getWeightEntries = <<>>
        THEN last.ret = NullResult
        ELSE /\ last.ret \in Range(getWeightEntries)
             /\ \A e \in Range(getWeightEntries) : e.date <= last.ret.date

(* the latest weight read from a collection whose newest date was not the
   last one saved *)
C10_Witness ==
    /\ last.op = "getLatestWeight"
    /\ Len(getWeightEntries) >= 2
    /\ last.ret.date = MaxDay
    /\ \E e \in Range(getWeightEntries) : e.createdAt > last.ret.createdAt

-----------------------------------------------------------------------------
(* Properties of the date-range query *)

(* the calendar day a date argument names: the day written in the string,
   or the local day of the Date object *)
ArgDay(x) == IF "str" \in DOMAIN x THEN x.str ELSE (x.date + tz) \div TicksPerDay

(* C4: for start day <= end day, getFoodEntriesByDateRange(start, end)
   returns every stored entry dated the start day, the end day or a day
   between, and no entry dated one day before start or one day after end,
   for every time-zone offset, for 'YYYY-MM-DD' strings and for
   local-midnight Date values alike. *)
C4_RangeInclusive ==
    last.op = "getFoodEntriesByDateRange" =>
        LET first == ArgDay(last.startDate)
            final == ArgDay(last.endDate)
        IN  /\ \A i \in 1..Len(getFoodEntries) :
                  (first <= getFoodEntries[i].date /\ getFoodEntries[i].date <= final)
                      => \E j \in 1..Len(last.ret) : last.ret[j] = getFoodEntries[i]
            /\ \A j \in 1..Len(last.ret) :
                  last.ret[j].date # first - 1 /\ last.ret[j].date # final + 1

-----------------------------------------------------------------------------
(* Properties of the recipe, food and settings repositories *)

(* C5: saveRecipe(r) followed immediately by getRecipeById(returned.id)
   yields the input r plus the assigned id and createdAt, the record just
   created and not another one. *)
C5_SaveThenFind ==
    [][(last.op = "saveRecipe" /\ last'.op = "getRecipeById" /\ last'.id = last.ret.id) =>
        last'.ret = [k \in (DOMAIN last.input) \cup {"id", "createdAt"} |->
                        IF k \in DOMAIN last.input THEN last.input[k] ELSE last.ret[k]]]_vars

(* the collection a delete or update call works on, read from a store *)
Collection(st, op) ==
    LET key == IF op \in {"deleteFoodEntry", "updateFoodEntry"} THEN FOOD_ENTRIES
               ELSE IF op \in {"deleteRecipe", "updateRecipe"} THEN RECIPES
               ELSE WEIGHT_ENTRIES
    IN  IF key \in DOMAIN st THEN st[key] ELSE <<>>

DeleteOps == {"deleteFoodEntry", "deleteWeightEntry", "deleteRecipe"}

(* C6: for the Food, Weight and Recipe collections, delete(id) returns
   true; with an id that matches no record it leaves the collection,
   contents and order, unchanged; and a delete repeated with the same id
   changes nothing more. *)
C6_DeleteIdempotent ==
    [][last'.op \in DeleteOps =>
        LET before == Collection(store, last'.op)
            after == Collection(store', last'.op)
        IN  /\ last'.ret = TRUE
            /\ (\A i \in 1..Len(before) : before[i].id # last'.id) => after = before
            /\ \A i \in 1..Len(after) : after[i].id # last'.id
            /\ (last.op = last'.op /\ last.id = last'.id) => after = before]_vars

(* a delete of an id no record carries, on a full collection *)
C6_Witness ==
    /\ last.op = "deleteFoodEntry"
    /\ last.removed = 0
    /\ Len(getFoodEntries) = MaxEntries

UpdateOps == {"updateFoodEntry", "updateRecipe"}

(* C7: updateFoodEntry/updateRecipe(id, updates): when a record with that
   id exists, the returned and the persisted record have every key of
   updates at the updates' value and every other key at its previous value,
   and all other records and the order are unchanged; when none exists the
   call returns null and the persisted collection is unchanged. *)
C7_UpdateMerges ==
    [][last'.op \in UpdateOps =>
        LET before == Collection(store, last'.op)
            after == Collection(store', last'.op)
            u == last'.updates
            r == last'.ret
        IN  IF \E i \in 1..Len(before) : before[i].id = last'.id
            THEN /\ Len(after) = Len(before)
                 /\ \E i \in 1..Len(before) :
                       /\ before[i].id = last'.id
                       /\ \A j \in (1..Len(before)) \ {i} : after[j] = before[j]
                       /\ \A k \in DOMAIN u :
                             Prop(after[i], k) = u[k] /\ Prop(r, k) = u[k]
                       /\ \A k \in ((DOMAIN before[i]) \cup (DOMAIN after[i]) \cup (DOMAIN r))
                                      \ (DOMAIN u) :
                             /\ Prop(after[i], k) = Prop(before[i], k)
                             /\ Prop(r, k) = Prop(before[i], k)
            ELSE r = NullResult /\ store' = store]_vars

(* an update that hit the second of two records *)
C7_Witness ==
    /\ last.op \in UpdateOps
    /\ last.index = 2
    /\ Len(Collection(store, last.op)) = 2

(* the settings a read has to return: what is stored, or the defaults *)
ExpectedSettings ==
    IF SETTINGS \in DOMAIN store THEN store[SETTINGS]
    ELSE [calorieGoal |-> 2000, weightUnit |-> "kg"]

(* C8: getSettings returns {calorieGoal: 2000, weightUnit: 'kg'} when
   nothing is saved, and after any sequence of saveSettings calls with
   partial objects it returns a record with both keys, each at the value of
   the most recent save that supplied it, or the default if none did. *)
C8_SettingsMerge ==
    /\ [](last.op = "getSettings" =>
            /\ last.ret = ExpectedSettings
            /\ DOMAIN last.ret = {"calorieGoal", "weightUnit"})
    /\ [][last'.op = "saveSettings" =>
            ExpectedSettings' =
                [k \in {"calorieGoal", "weightUnit"} |->
                    IF k \in DOMAIN last'.settings THEN last'.settings[k]
                    ELSE ExpectedSettings[k]]]_vars

(* a read after a save that supplied only the unit, following a save that
   had set the goal *)
C8_Witness ==
    /\ last.op = "getSettings"
    /\ last.ret = [calorieGoal |-> 1800, weightUnit |-> "lb"]

RECURSIVE SumCalories(_, _)
(* the sum of the calories of the first n entries of a list *)
SumCalories(list, n) ==
    IF n = 0 THEN 0 ELSE SumCalories(list, n - 1) + list[n].calories

(* C9: getFoodEntriesByDate(d) returns exactly the stored food entries
   whose date is calendar day d, all of them when several share the day and
   none of another day, and calculateTotalCalories over that result is the
   sum of their calories. *)
C9_EntriesOfTheDay ==
    last.op = "getFoodEntriesByDate" =>
        LET day == ArgDay(last.date)
            ofDay == SelectSeq(getFoodEntries, LAMBDA e : e.date = day)
        IN  /\ last.ret = ofDay
            /\ last.total = SumCalories(ofDay, Len(ofDay))

(* the two entries of one day, 70 and 120 calories, west of UTC *)
C9_Witness ==
    /\ last.op = "getFoodEntriesByDate"
    /\ Len(last.ret) = 2
    /\ last.total = 190
    /\ tz < 0

-----------------------------------------------------------------------------
(* Properties of the identifiers *)

(* no two records of a list carry the same id *)
UniqueIds(list) == \A i, j \in 1..Len(list) : i # j => list[i].id # list[j].id

(* C11: after any sequence of create and delete calls on the Food, Recipe
   or Weight repository, no two records of the same collection share an
   id, whatever the clock does between the calls, two creates within the
   same millisecond included. *)
C11_IdsUnique ==
    /\ UniqueIds(getFoodEntries)
    /\ UniqueIds(getRecipes)
    /\ UniqueIds(getWeightEntries)

-----------------------------------------------------------------------------
(* Properties of the storage adapter under failure *)

(* C12: Storage.get(key) returns null when the key is absent or when the
   read or the parse fails, and never raises; Storage.set(key, value)
   never raises, returns true exactly when the value was stored and false
   when storing failed, and then the value under the key is what it was. *)
C12_GetSetNeverRaise ==
    /\ [](last.op = "get" =>
            /\ ~last.threw
            /\ (last.key \notin DOMAIN store \/ "getItem" \in fault \/ "parse" \in fault)
                  => last.isNull)
    /\ [][last'.op = "set" =>
            /\ ~last'.threw
            /\ last'.ret \in BOOLEAN
            /\ last'.ret => (last'.key \in DOMAIN store' /\ store'[last'.key] = last'.value)
            /\ ~last'.ret => ("setItem" \in fault /\ store' = store)]_vars

(* a write that failed over a stored collection with a record in it *)
C12_Witness ==
    /\ last.op = "set"
    /\ last.ret = FALSE
    /\ last.key = RECIPES
    /\ Len(getRecipes) = 1

RepositoryOps ==
    {"saveFoodEntry", "updateFoodEntry", "deleteFoodEntry", "getFoodEntriesByDate",
     "getFoodEntriesByDateRange", "saveWeightEntry", "deleteWeightEntry",
     "getLatestWeight", "saveRecipe", "updateRecipe", "deleteRecipe", "getRecipeById",
     "list", "saveSettings", "getSettings"}

(* C13: no repository operation of Storage (list, create, update, delete,
   find, the date queries, getSettings, saveSettings) raises an exception
   when a read or a write of the underlying store fails; each call returns
   a value. *)
C13_RepositoryNeverRaises ==
    last.op \in RepositoryOps => (~last.threw /\ "ret" \in DOMAIN last)

(* an update that found its record while writes were failing *)
C13_Witness ==
    /\ last.op = "updateRecipe"
    /\ last.index # 0
    /\ "setItem" \in fault
    /\ ~last.threw

(* the localStorage key of the namespace an operation belongs to *)
OwnKey(call) ==
    IF call.op \in {"saveFoodEntry", "updateFoodEntry", "deleteFoodEntry",
                    "getFoodEntriesByDate", "getFoodEntriesByDateRange"}
    THEN "calorieflow_food_entries"
    ELSE IF call.op \in {"saveWeightEntry", "deleteWeightEntry", "getLatestWeight"}
    THEN "calorieflow_weight_entries"
    ELSE IF call.op \in {"saveRecipe", "updateRecipe", "deleteRecipe", "getRecipeById"}
    THEN "calorieflow_recipes"
    ELSE IF call.op \in {"saveSettings", "getSettings"}
    THEN "calorieflow_settings"
    ELSE call.key

(* C14: every repository operation reads and writes only the localStorage
   key of its own namespace: it leaves the values stored under the other
   keys as they were, and a key that is absent reads as the empty
   collection (the default settings for Settings). *)
C14_OwnNamespaceOnly ==
    /\ [][last'.op \in RepositoryOps =>
            \A k \in ((DOMAIN store) \cup (DOMAIN store')) \ {OwnKey(last')} :
                k \in DOMAIN store /\ k \in DOMAIN store' /\ store'[k] = store[k]]_vars
    /\ [](last.op = "list" =>
            IF last.key \in DOMAIN store /\ fault = {}
            THEN last.ret = store[last.key]
            ELSE last.key \notin DOMAIN store => last.ret = <<>>)
    /\ [](last.op = "getSettings" =>
            IF "calorieflow_settings" \in DOMAIN store /\ fault = {}
            THEN last.ret = store["calorieflow_settings"]
            ELSE "calorieflow_settings" \notin DOMAIN store
                    => last.ret = [calorieGoal |-> 2000, weightUnit |-> "kg"])

(* a food entry deleted while the other three namespaces hold data *)
C14_Witness ==
    /\ last.op = "deleteFoodEntry"
    /\ last.removed = 1
    /\ Len(getRecipes) = 1
    /\ Len(getWeightEntries) = 1
    /\ SETTINGS \in DOMAIN store

-----------------------------------------------------------------------------
(* Properties of the date utilities *)

(* the weekday of the local day of an instant, 0 for Sunday *)
Weekday(t) == (ToDateString(t) + 4) % 7

(* C15: getWeekStart(d) is the Monday of the week that contains d: it
   falls on a Monday, is not after d and is fewer than 7 days before d (a
   Wednesday gives the date 2 days before, a Sunday the date 6 days
   before), also when the week crosses a month or year boundary. *)
C15_WeekStartIsMonday ==
    last.op = "getWeekStart" =>
        /\ Weekday(last.ret) = 1
        /\ last.ret <= last.date
        /\ last.date - last.ret < 7 * TicksPerDay
        /\ Weekday(last.date) = 3 => ToDateString(last.ret) = ToDateString(last.date) - 2
        /\ Weekday(last.date) = 0 => ToDateString(last.ret) = ToDateString(last.date) - 6

(* the week start of Sunday 1970-01-04 is Monday 1969-12-29 *)
C15_Witness ==
    /\ last.op = "getWeekStart"
    /\ ToDateString(last.date) = 3
    /\ ToDateString(last.ret) = -3

(* C16 as stated: getDaysBetween(a, b) is symmetric in its arguments,
   returns 1 when a and b are the same instant, and returns n+1 when a and
   b are instants at the same time of day n calendar days apart. *)
C16_InclusiveDayCount ==
    last.op = "getDaysBetween" =>
        /\ last.ret = getDaysBetween(last.end, last.start)
        /\ last.start = last.end => last.ret = 1
        /\ TimeOfDay(last.start) = TimeOfDay(last.end)
              => last.ret = Abs(ToDateString(last.end) - ToDateString(last.start)) + 1

(* C16, amended: getDaysBetween(a, b) is symmetric in its arguments,
   returns 1 when a and b are the same instant, and returns n+1 when a and
   b are exactly n times 24 hours apart, which instants at the same time
   of day n calendar days apart are unless daylight saving time ends
   between them. *)
C16_InclusiveDayCountOfWholeDays ==
    last.op = "getDaysBetween" =>
        /\ last.ret = getDaysBetween(last.end, last.start)
        /\ last.start = last.end => last.ret = 1
        /\ Abs(last.end - last.start) % TicksPerDay = 0
              => last.ret = Abs(last.end - last.start) \div TicksPerDay + 1

(* two instants exactly two days apart, the later one given first, in a
   zone with daylight saving time *)
C16_Witness ==
    /\ last.op = "getDaysBetween"
    /\ last.start - last.end = 2 * TicksPerDay
    /\ last.ret = 3
    /\ dstEnd # {}

-----------------------------------------------------------------------------
(* Properties of the analytics *)

(* the calories of the stored food entries dated from day a to day b *)
CaloriesOfDays(a, b) ==
    LET within == SelectSeq(getFoodEntries, LAMBDA e : a <= e.date /\ e.date <= b)
    IN  SumCalories(within, Len(within))

(* C17: in updateAnalytics the divisor of the weekly average is the number
   of days elapsed this week, Monday through today inclusive (1 on Monday,
   never more than 7), whatever the time of day and however much clock
   time passes between computing weekStart and reading the current time. *)
C17_WeekDaysElapsed ==
    last.op = "updateAnalytics" =>
        /\ last.weekDays = ((Weekday(now) + 6) % 7) + 1
        /\ last.weekDays <= 7

(* C18: the monthly series of updateAnalytics has exactly four buckets,
   oldest first, each the calorie sum of an inclusive 7-day window; the
   windows are consecutive and do not overlap, and the newest one ends at
   today, so an entry dated today is counted in the last bucket. *)
C18_FourWeeksEndingToday ==
    last.op = "updateAnalytics" =>
        /\ Len(last.monthData) = 4
        /\ \A i \in 1..4 :
              last.monthData[i] =
                  CaloriesOfDays(ToDateString(now) - 7 * (4 - i) - 6,
                                 ToDateString(now) - 7 * (4 - i))

(* C19: the monthly total of updateAnalytics is the calorie sum of exactly
   the food entries dated within the current calendar month, first to last
   day inclusive and none of an adjacent month, and the monthly daily
   average is that total divided by the current day of the month. *)
C19_MonthTotalOfCalendarMonth ==
    last.op = "updateAnalytics" =>
        /\ last.monthTotal =
              CaloriesOfDays(MonthStartDay(ToDateString(now)),
                             NextMonthStartDay(ToDateString(now)) - 1)
        /\ last.monthAvg = Round(last.monthTotal, getDate(now))

-----------------------------------------------------------------------------
(* Properties of the service worker *)

(* C20: once the activate handler has completed, the only cache that
   remains is the one named by the current CACHE_NAME: every cache with
   another name that existed at activation has been deleted, and the
   current cache has not been deleted. *)
C20_OnlyCurrentCacheRemains ==
    sw.phase = "activated" =>
        /\ sw.caches \subseteq {"calorieflow-v1"}
        /\ \A n \in sw.atActivation \ {"calorieflow-v1"} : n \notin sw.caches
        /\ "calorieflow-v1" \notin sw.deleted
        /\ "calorieflow-v1" \in sw.atActivation => "calorieflow-v1" \in sw.caches

(* the handler done after the current cache and every old one existed *)
C20_Witness ==
    /\ sw.phase = "activated"
    /\ last.op = "clientsClaim"
    /\ sw.atActivation = OldCacheNames \cup {CACHE_NAME}
    /\ sw.caches = {CACHE_NAME}

-----------------------------------------------------------------------------
(* C21: the fetch handler answers a request it handles with the cached
   response, without calling fetch, when caches.match finds one at the
   moment it resolves, and otherwise calls fetch; a response of the network
   is the answer as it is, and a cache.put of its copy is started exactly
   when its status is 200; the current cache gains a URL only by such a put,
   and every put that was started stores its URL. *)
C21_CacheFirstThenNetwork ==
    /\ [][sw.step = "matching" /\ sw'.step # "matching" =>
            IF sw.request.url \in sw.stored
            THEN /\ last'.op = "respond"
                 /\ last'.response = CachedResponse(sw.request.url)
                 /\ ~last'.fetched
                 /\ sw'.puts = sw.puts /\ sw'.stored = sw.stored
            ELSE sw'.step = "fetching" /\ last'.op = "fetch"]_vars
    /\ [][sw.step = "fetching" /\ last'.op = "respond" /\ last'.response.from = "network" =>
            /\ last'.response.url = sw.request.url
            /\ sw'.stored = sw.stored
            /\ IF last'.response.status = 200
               THEN sw'.puts = sw.puts \cup {sw.request.url}
               ELSE sw'.puts = sw.puts]_vars
    /\ [][sw.phase = "activated" /\ sw'.stored # sw.stored =>
            \E url \in sw.puts : sw'.stored = sw.stored \cup {url}]_vars
    /\ \A url \in RequestUrls : (url \in sw.puts) ~> (url \in sw.stored)

(* a page that is not an asset is answered from the cache: the network
   answered it with status 200 before, and the copy was stored *)
C21_Witness ==
    /\ last.op = "respond"
    /\ last.request.url = Url(ORIGIN, "/recipes")
    /\ last.response = CachedResponse(Url(ORIGIN, "/recipes"))

(* the origin of a URL: its text without the path *)
OriginOf(url) == SubSeq(url, 1, Len(url) - 1)

(* C22: a handled navigation request (Accept has text/html) that is not in
   the cache and whose fetch fails is answered with the cached root
   document; a request of another origin or with a method other than GET is
   never answered by the handler. *)
C22_OfflineFallbackAndPassThrough ==
    /\ last.op = "respond" /\ last.fetched /\ last.response.from # "network"
           /\ "text/html" \in last.request.accept
         => last.response = CachedResponse(Url(ORIGIN, "/index.html"))
    /\ last.op = "respondWith"
         => last.request.method = "GET" /\ OriginOf(last.request.url) = ORIGIN

(* C26: when the promise given to waitUntil by the install handler has
   settled successfully, every path of ASSETS_TO_CACHE is stored in the
   cache CACHE_NAME, also when one asset failed during the install. *)
C26_InstallCachesEveryAsset ==
    last.op = "installDone" => AssetUrls \subseteq sw.stored

-----------------------------------------------------------------------------
(* C23: Auth.setPin with a PIN of fewer than 4 characters returns
   {success: false, error}, does not throw, and leaves the stored hash, and
   so whether a PIN is set, as it was; with 4 or more characters it returns
   {success: true} and a PIN is set afterwards. *)
C23_SetPinValidates ==
    [][last'.op = "setPin" =>
        /\ ~last'.threw
        /\ "ret" \in DOMAIN last'
        /\ IF Len(last'.pin) < 4
           THEN /\ last'.ret.success = FALSE
                /\ "error" \in DOMAIN last'.ret
                /\ store' = store
           ELSE /\ last'.ret = [success |-> TRUE]
                /\ STORAGE_KEY \in DOMAIN store']_vars

(* a PIN of three characters was refused while another PIN was set, and
   isPinSet has answered true after a PIN was taken *)
C23_Witness ==
    /\ STORAGE_KEY \in DOMAIN store
    /\ \/ last.op = "setPin" /\ Len(last.pin) = 3 /\ ~last.ret.success
       \/ last.op = "isPinSet" /\ last.ret

(* C30: after a successful setPin(p), verifyPin(p) is true, and it stays
   true through every call but a later successful setPin and resetPin;
   while no PIN is stored, and so after resetPin, verifyPin is false for
   every PIN; verifyPin returns exactly that. *)
C30_PinVerifiesUntilChanged ==
    /\ [][last'.op = "setPin" /\ ~last'.threw /\ last'.ret.success =>
            VerifyPinIn(store', last'.pin)]_vars
    /\ [][~(last'.op = "setPin" /\ ~last'.threw /\ last'.ret.success)
            /\ last'.op # "resetPin" =>
            \A pin \in Pins : VerifyPin(pin) => VerifyPinIn(store', pin)]_vars
    /\ [][last'.op = "verifyPin" =>
            ~last'.threw /\ last'.ret = VerifyPin(last'.pin)]_vars
    /\ [][last'.op = "resetPin" => STORAGE_KEY \notin DOMAIN store']_vars
    /\ [][STORAGE_KEY \notin DOMAIN store =>
            \A pin \in Pins : ~VerifyPin(pin)]_vars

(* verifyPin of the longest PIN, whose hash is negative before Math.abs,
   answers true in a session that is signed in *)
C30_Witness ==
    /\ last.op = "verifyPin"
    /\ last.ret
    /\ last.pin = [i \in 1..MaxPinLen |-> IF i = 1 THEN 8364 ELSE 49]
    /\ AUTHENTICATED \in DOMAIN session

-----------------------------------------------------------------------------
(* C24: saveWeightEntry for a date that already has an entry leaves the
   entry of that date with the id and createdAt of this save; the id the
   entry had before identifies no entry any more, so deleteWeightEntry of
   it would remove nothing, and deleteWeightEntry of the new id would
   remove exactly that entry. *)
C24_ResaveReplacesId ==
    [][last'.op = "saveWeightEntry" /\ last'.existingIndex # 0 =>
        LET before == Collection(store, "saveWeightEntry")
            after == Collection(store', "saveWeightEntry")
            old == before[last'.existingIndex]
            i == FindIndexByDate(after, last'.date)
        IN  /\ i # 0
            /\ after[i].id = last'.ret.id
            /\ after[i].createdAt = last'.ret.createdAt
            /\ FilterOutId(after, old.id) = after
            /\ FilterOutId(after, last'.ret.id) = WithoutIndex(after, i)]_vars

-----------------------------------------------------------------------------
SaveOps == {"saveFoodEntry", "saveRecipe", "saveWeightEntry"}

SavedKey(op) ==
    IF op \in {"saveFoodEntry", "deleteFoodEntry"} THEN FOOD_ENTRIES
    ELSE IF op \in {"saveRecipe", "deleteRecipe"} THEN RECIPES
    ELSE WEIGHT_ENTRIES

(* the fields the caller passed to the save that last ran *)
SavedInput(call) ==
    IF call.op = "saveWeightEntry" THEN [date |-> call.date, weight |-> call.weight]
    ELSE call.input

(* what the list method of the key returns when localStorage is st and
   can be read *)
ListOf(st, key) == IF key \in DOMAIN st THEN st[key] ELSE <<>>

(* C25: when localStorage.setItem fails during saveFoodEntry, saveRecipe or
   saveWeightEntry, the call returns the record it was given with id and
   createdAt added, localStorage is what it was before the call, and the
   list read afterwards has no record equal to the returned one; a delete
   whose write fails returns true and localStorage is what it was. *)
C25_FailedWriteKeepsCollection ==
    [][fault = {"setItem"} =>
        /\ last'.op \in SaveOps =>
              /\ ~last'.threw
              /\ \A f \in DOMAIN SavedInput(last') : last'.ret[f] = SavedInput(last')[f]
              /\ last'.ret.id = ToString(now) /\ last'.ret.createdAt = now
              /\ store' = store
              /\ \A k \in 1..Len(ListOf(store', SavedKey(last'.op))) :
                     ListOf(store', SavedKey(last'.op))[k] # last'.ret
        /\ last'.op \in DeleteOps =>
              /\ ~last'.threw
              /\ last'.ret = TRUE
              /\ store' = store]_vars

-----------------------------------------------------------------------------
RECURSIVE SumOf(_)
SumOf(numbers) == IF numbers = <<>> THEN 0 ELSE Head(numbers) + SumOf(Tail(numbers))

(* C27: in updateAnalytics the seven daily totals of the weekly chart
   (getFoodEntriesByDate of weekStart + 0 .. weekStart + 6) add up to the
   weekly total (getFoodEntriesByDateRange(weekStart, weekEnd)), for every
   set of stored food entries, current time and time zone: an entry is in
   the total exactly when it is in one of the daily totals. *)
C27_DailyBucketsSumToWeekTotal ==
    last.op = "updateAnalytics" => SumOf(last.weekData) = last.weekTotal

-----------------------------------------------------------------------------
(* the stored recipes before and after a step *)
RecipesIn(st) == ListOf(st, RECIPES)

(* C28: submitting the recipe form in edit mode with no file chosen leaves
   the image of the stored recipe as it was; the recipe afterwards has the
   name, calories, ingredients and instructions of the form, and every
   other field as before. *)
C28_EditKeepsImage ==
    [][/\ last'.op = "submit" /\ ~last'.awaited /\ last'.id # ""
       /\ FindIndexById(RecipesIn(store), last'.id) # 0
       => LET i == FindIndexById(RecipesIn(store), last'.id)
              before == RecipesIn(store)[i]
              after == RecipesIn(store')[i]
          IN  /\ after.image = before.image
              /\ \A k \in FormFields : after[k] = form[k]
              /\ \A k \in (DOMAIN before) \ FormFields :
                     k \in DOMAIN after /\ after[k] = before[k]]_vars

(* C29 as claimed: the record a submission writes has the field values the
   form had when the submit event fired, under the id the form had then,
   whatever the user did while the image was converted. *)
C29_WritesValuesAtSubmit ==
    [][last'.op = "submit" => FormValues(last'.recipe) = last'.fired]_vars

(* what a submission for the id, with the recipe built by the handler,
   leaves in the list of recipes *)
WrittenRecipes(recipes, id, recipe) ==
    IF id = "" THEN Append(recipes, Merge(recipe, [id |-> ToString(now), createdAt |-> now]))
    ELSE IF \E i \in 1..Len(recipes) : recipes[i].id = id
    THEN [i \in 1..Len(recipes) |->
            IF i = FindIndexById(recipes, id) THEN Merge(recipes[i], recipe)
            ELSE recipes[i]]
    ELSE recipes

(* C29: a submission writes under the id the form had when the submit event
   fired (a new record when it was empty, nothing when that recipe has been
   deleted meanwhile), with the image of the file chosen then, the name,
   calories, ingredients and instructions the form has when the image
   conversion completes; these are the values at submit when the form was
   not changed during the wait. *)
C29_WritesValuesAtCompletion ==
    [][last'.op = "submit" =>
        /\ FormValues(last'.recipe) = FormValues(form)
        /\ last'.recipe.image = IF last'.imageFile = NoFile THEN Null
                                ELSE fileToBase64(last'.imageFile)
        /\ FormValues(form) = last'.fired => FormValues(last'.recipe) = last'.fired
        /\ RecipesIn(store') = WrittenRecipes(RecipesIn(store), last'.id, last'.recipe)]_vars

(* the submission for the recipe "1" has written the values of the recipe
   "0", which the user opened while the image was converted *)
C29_Witness ==
    /\ last.op = "submit" /\ last.awaited
    /\ last.id = "1"
    /\ last.fired.name = "Cake"
    /\ \E i \in 1..Len(RecipesIn(store)) :
          RecipesIn(store)[i].id = "1" /\ RecipesIn(store)[i].name = "Soup"

====
